---------------------------- MODULE Spec2Model ----------------------------
(***************************************************************************)
(* The Wan 2.2 HTTP service (api.py) and its checkpoint downloader         *)
(* (download_models.py) as a state machine.                                *)
(*                                                                         *)
(* The handlers are coroutines of one event loop: a handler runs without   *)
(* interruption until it awaits, and generate_video awaits exactly once,   *)
(* at `await image.read()`.  The state is the module globals of api.py     *)
(* (MODEL_PATH, _model_cache), the file system (the directories that exist, *)
(* looked up from the working directory, and the files of OUTPUT_DIR), and *)
(* for every request in flight its position in generate_video and its      *)
(* local variables.                                                        *)
(*                                                                         *)
(* Python strings that the code inspects (`"t2v" in task`, task.upper(),   *)
(* path joins) are sequences of one-character strings.  An Optional value  *)
(* is a set: {} is None and {v} is the value v.                            *)
(***************************************************************************)
EXTENDS Integers, Sequences, FiniteSets, TLC

(***************************************************************************)
(* Bounds of the model.                                                    *)
(***************************************************************************)
\* requests that can be in flight at the same time
MaxReqs == 2
\* the distinct values uuid.uuid4() can return
MaxUuid == 2
\* model constructions per task in one run
MaxBuild == 2
\* calls of uuid.uuid4() in one run, one before every save_video call
MaxDraws == 2

(***************************************************************************)
(* Strings.                                                                *)
(***************************************************************************)
LowerLetters == <<"a","b","c","d","e","f","g","h","i","j","k","l","m",
                  "n","o","p","q","r","s","t","u","v","w","x","y","z">>
UpperLetters == <<"A","B","C","D","E","F","G","H","I","J","K","L","M",
                  "N","O","P","Q","R","S","T","U","V","W","X","Y","Z">>

\* str.upper() on one character
UpperChar(c) ==
    IF \E i \in 1..Len(LowerLetters) : LowerLetters[i] = c
    THEN UpperLetters[CHOOSE i \in 1..Len(LowerLetters) : LowerLetters[i] = c]
    ELSE c

\* str.upper()
Upper(s) == [i \in 1..Len(s) |-> UpperChar(s[i])]

\* Python's `sub in s` on strings
Contains(sub, s) ==
    \E i \in 0..(Len(s) - Len(sub)) : SubSeq(s, i + 1, i + Len(sub)) = sub

\* the components of a path string between "/" separators
RECURSIVE SplitPath(_)
SplitPath(s) ==
    IF \A i \in 1..Len(s) : s[i] # "/"
    THEN <<s>>
    ELSE LET k == CHOOSE i \in 1..Len(s) :
                      s[i] = "/" /\ \A j \in 1..(i - 1) : s[j] # "/"
         IN  <<SubSeq(s, 1, k - 1)>> \o SplitPath(SubSeq(s, k + 1, Len(s)))

\* the components pathlib keeps of a path: it drops "" and "."
RECURSIVE NamedParts(_)
NamedParts(parts) ==
    IF parts = <<>> THEN <<>>
    ELSE IF Head(parts) = <<>> \/ Head(parts) = <<".">>
         THEN NamedParts(Tail(parts))
         ELSE <<Head(parts)>> \o NamedParts(Tail(parts))

RECURSIVE JoinParts(_)
JoinParts(parts) ==
    IF parts = <<>> THEN <<>>
    ELSE IF Len(parts) = 1 THEN Head(parts)
         ELSE Head(parts) \o <<"/">> \o JoinParts(Tail(parts))

\* os.path.join(a, b)
os_path_join(a, b) ==
    IF Len(b) > 0 /\ b[1] = "/" THEN b
    ELSE IF a = <<>> \/ a[Len(a)] = "/" THEN a \o b
         ELSE a \o <<"/">> \o b

\* the number of "/" a string starts with
LeadingSlashes(s) ==
    Cardinality({i \in 1..Len(s) : \A j \in 1..i : s[j] = "/"})

\* the root pathlib gives a POSIX path: exactly two leading slashes are
\* kept, one or more than two are "/"
PathRoot(s) ==
    IF LeadingSlashes(s) = 2 THEN <<"/", "/">>
    ELSE IF LeadingSlashes(s) >= 1 THEN <<"/">>
    ELSE <<>>

\* str(Path(a) / b) for a name b: the root of a, then the components of a
\* without "" and ".", then b
PathJoin(a, b) == PathRoot(a) \o JoinParts(NamedParts(SplitPath(a)) \o <<b>>)

\* the parent of a directory; the root is its own parent
Parent(dir) == IF dir = <<>> THEN dir ELSE SubSeq(dir, 1, Len(dir) - 1)

\* The lookup of the operating system.  A directory is the sequence of the
\* names from the root down to it, and `files` is the set of the
\* directories that exist.  From the directory `at` the components are
\* followed one by one, "" and "." staying, ".." going to the parent; the
\* result is the directory reached, or nothing when one on the way is not
\* there.
RECURSIVE Lookup(_, _, _)
Lookup(files, at, parts) ==
    IF at \notin files THEN {}
    ELSE IF parts = <<>> THEN {at}
    ELSE IF Head(parts) = <<>> \/ Head(parts) = <<".">>
         THEN Lookup(files, at, Tail(parts))
    ELSE IF Head(parts) = <<".", ".">>
         THEN Lookup(files, Parent(at), Tail(parts))
    ELSE Lookup(files, Append(at, Head(parts)), Tail(parts))

\* the directory a lookup starts from: the root for a path that starts with
\* "/", the working directory otherwise
StartDir(wd, s) == IF Len(s) > 0 /\ s[1] = "/" THEN <<>> ELSE wd

\* the directory the path string s names for a process whose working
\* directory is wd, if it exists
Resolve(files, wd, s) == Lookup(files, StartDir(wd, s), SplitPath(s))

\* os.path.exists(p) and Path(p).exists(); the empty string names nothing
Exists(files, wd, p) == p # <<>> /\ Resolve(files, wd, p) # {}

\* the directories after os.makedirs(p, exist_ok=True): every directory on
\* the way is made where it is missing
RECURSIVE MakeDirsFrom(_, _, _)
MakeDirsFrom(files, at, parts) ==
    IF parts = <<>> THEN files \cup {at}
    ELSE IF Head(parts) = <<>> \/ Head(parts) = <<".">>
         THEN MakeDirsFrom(files \cup {at}, at, Tail(parts))
    ELSE IF Head(parts) = <<".", ".">>
         THEN MakeDirsFrom(files \cup {at}, Parent(at), Tail(parts))
    ELSE MakeDirsFrom(files \cup {at}, Append(at, Head(parts)), Tail(parts))

MakeDirs(files, wd, p) == MakeDirsFrom(files, StartDir(wd, p), SplitPath(p))


(***************************************************************************)
(* Configuration: wan.configs and the module globals of api.py and         *)
(* download_models.py.                                                     *)
(***************************************************************************)
T2V_A14B == <<"t","2","v","-","A","1","4","B">>
I2V_A14B == <<"i","2","v","-","A","1","4","B">>
TI2V_5B  == <<"t","i","2","v","-","5","B">>
S2V_14B  == <<"s","2","v","-","1","4","B">>
\* a task name a client may send that is no key of WAN_CONFIGS
UnknownTask == <<"t","2","v">>

Size1280x704 == <<"1","2","8","0","*","7","0","4">>
Size832x480  == <<"8","3","2","*","4","8","0">>
\* a size a client may send that is no key of SIZE_CONFIGS
UnknownSize  == <<"1","*","1">>

\* wan.configs.WAN_CONFIGS: per task the sampling defaults.  A guidance
\* scale is a number of tenths (5.0 is 50); the pair (3.0, 4.0) of the A14B
\* tasks is the number 3040.
WAN_CONFIGS ==
    (T2V_A14B :> [sample_steps |-> 40, sample_guide_scale |-> 3040, frame_num |-> 81])
 @@ (I2V_A14B :> [sample_steps |-> 40, sample_guide_scale |-> 3535, frame_num |-> 81])
 @@ (TI2V_5B  :> [sample_steps |-> 50, sample_guide_scale |-> 50,   frame_num |-> 121])
 @@ (S2V_14B  :> [sample_steps |-> 40, sample_guide_scale |-> 45,   frame_num |-> 80])

\* wan.configs.SIZE_CONFIGS: its keys
SIZE_CONFIGS == {Size1280x704, Size832x480}

\* wan.configs.SUPPORTED_SIZES
SUPPORTED_SIZES ==
    (T2V_A14B :> {Size1280x704, Size832x480})
 @@ (I2V_A14B :> {Size1280x704, Size832x480})
 @@ (TI2V_5B  :> {Size1280x704})
 @@ (S2V_14B  :> {Size1280x704, Size832x480})

\* the default of os.getenv("MODEL_TYPE", "ti2v-5B"), in both programs
DefaultModelType == TI2V_5B

\* os.getenv(key, default), the variable being unset ({}) or set ({v})
os_getenv(value, default) ==
    IF value = {} THEN default ELSE CHOOSE v \in value : TRUE

\* download_models.MODELS
MODELS ==
    (TI2V_5B  :> <<"W","a","n","2",".","2","-","T","I","2","V","-","5","B">>)
 @@ (T2V_A14B :> <<"W","a","n","2",".","2","-","T","2","V","-","A","1","4","B">>)
 @@ (I2V_A14B :> <<"W","a","n","2",".","2","-","I","2","V","-","A","1","4","B">>)

\* model paths: the default of api.py, the default of download_models.py
DefaultModelPath  == <<".","/","m","o","d","e","l","s">>
DownloadModelPath == <<"/","a","p","p","/","m","o","d","e","l","s">>
\* a relative path written with a trailing separator, an absolute path
\* written with two leading separators, and paths through ".."
SlashModelPath    == <<"m","o","d","e","l","s","/">>
TwoSlashModelPath == <<"/","/","a","p","p","/","m","o","d","e","l","s">>
UpModelPath       == <<".",".","/","m","o","d","e","l","s">>
ViaModelPath      == <<"/","a","p","p","/","x","/",".",".","/","m","o","d","e","l","s">>
\* the values the environment variable MODEL_PATH is set to
Dirs == {DefaultModelPath, DownloadModelPath, SlashModelPath,
         TwoSlashModelPath, UpModelPath, ViaModelPath}

\* working directories: the root, and /app
RootDir == <<>>
AppDir  == << <<"a","p","p">> >>

\* A Python integer that may lie outside the range of the checker's
\* integers: its sign and the decimal digits of its magnitude, the most
\* significant first, without leading zeros.
PyInt(neg, digits) == [neg |-> neg, digits |-> digits]

\* a <= b on magnitudes
LeqDigits(a, b) ==
    IF Len(a) # Len(b) THEN Len(a) < Len(b)
    ELSE \A i \in 1..Len(a) :
            (\A j \in 1..(i - 1) : a[j] = b[j]) => a[i] <= b[i]

\* x <= y on Python integers
IntLeq(x, y) ==
    IF x.neg /\ ~ y.neg THEN TRUE
    ELSE IF ~ x.neg /\ y.neg THEN FALSE
    ELSE IF x.neg THEN LeqDigits(y.digits, x.digits)
    ELSE LeqDigits(x.digits, y.digits)

\* x < 0
IsNegative(x) == x.neg

PyZero == PyInt(FALSE, <<0>>)

\* sys.maxsize of a 64-bit build: 2^63 - 1 = 9223372036854775807
SysMaxsize == PyInt(FALSE, <<9,2,2,3,3,7,2,0,3,6,8,5,4,7,7,5,8,0,7>>)

\* An integer the model knows up to a range: the ends of the range, both
\* included.  A variable holds such a range when the code draws its value.
IntRange(lo, hi) == [lo |-> lo, hi |-> hi]

\* x is one of the integers of the range v
InRange(x, v) == IntLeq(v.lo, x) /\ IntLeq(x, v.hi)

\* random.randint(a, b): any integer N with a <= N <= b
random_randint(a, b) == IntRange(a, b)

\* Integers the seed handed to model.generate is compared with: -1, 0, the
\* seeds of the requests, the first draws of random.randint(0, sys.maxsize)
\* after random.seed(0), (1), (2) and (10), sys.maxsize and sys.maxsize + 1.
SeedProbes ==
    {PyInt(TRUE, <<1>>),
     PyZero,
     PyInt(FALSE, <<7>>),
     PyInt(FALSE, <<4,2>>),
     PyInt(FALSE, <<7,1,0,6,5,2,1,6,0,2,4,7,5,1,6,5,6,4,5>>),
     PyInt(FALSE, <<1,1,6,4,1,1,5,4,3,3,9,0,6,1,5,8,5,3,2>>),
     PyInt(FALSE, <<1,6,8,9,4,4,1,2,0,4,4,8,9,0,3,7,4,7,1>>),
     PyInt(FALSE, <<6,0,1,0,8,8,3,7,6,4,0,5,7,1,7,2,0,3>>),
     SysMaxsize,
     PyInt(FALSE, <<9,2,2,3,3,7,2,0,3,6,8,5,4,7,7,5,8,0,8>>)}

\* the values of uuid.uuid4()
UUIDs == 1..MaxUuid

\* uuid.uuid4(): a random value; nothing keeps a call from returning the
\* value of an earlier one
uuid_uuid4 == UUIDs

\* the request slots of the event loop
Reqs == 1..MaxReqs

AllTasks == DOMAIN WAN_CONFIGS \cup {UnknownTask}

(***************************************************************************)
(* get_model: the checkpoint directory and the model class of a task.      *)
(***************************************************************************)
\* f"Wan2.2-{task.upper()}"
CheckpointName(task) == <<"W","a","n","2",".","2","-">> \o Upper(task)

\* checkpoint_dir = os.path.join(MODEL_PATH, f"Wan2.2-{task.upper()}")
CheckpointDir(model_path, task) == os_path_join(model_path, CheckpointName(task))

\* the if/elif chain on the task name, in get_model and in generate_video
TaskKind(task) ==
    IF Contains(<<"t","2","v">>, task) THEN "t2v"
    ELSE IF Contains(<<"t","i","2","v">>, task) THEN "ti2v"
    ELSE IF Contains(<<"i","2","v">>, task) THEN "i2v"
    ELSE "other"

\* the cache test as it would be if every call initialised a model
CacheMissAlways(cache, task) == TRUE

\* `task not in _model_cache`
CacheMiss(cache, task) == task \notin DOMAIN cache

(***************************************************************************)
(* Exceptions and responses.                                               *)
(***************************************************************************)
Msg(text, arg) == [text |-> text, arg |-> arg]

\* An exception class is written as its method resolution order: the class
\* itself, then its bases up to BaseException.
ValueErrorClass == <<"ValueError", "Exception", "BaseException">>
FileNotFoundErrorClass ==
    <<"FileNotFoundError", "OSError", "Exception", "BaseException">>
\* fastapi.HTTPException
HTTPExceptionClass ==
    <<"HTTPException", "starlette.HTTPException", "Exception", "BaseException">>
\* PIL.UnidentifiedImageError and PIL.Image.DecompressionBombError
UnidentifiedImageErrorClass ==
    <<"UnidentifiedImageError", "OSError", "Exception", "BaseException">>
DecompressionBombErrorClass ==
    <<"DecompressionBombError", "Exception", "BaseException">>
\* asyncio.CancelledError, raised in a coroutine at its await when its task
\* is cancelled
CancelledErrorClass == <<"asyncio.CancelledError", "BaseException">>

\* Classes a library call can raise: a class of the library's own that
\* derives from Exception through RuntimeError (torch.cuda.OutOfMemoryError),
\* a class with two bases, and classes that do not derive from Exception.
LibraryRaises ==
    {<<"OutOfMemoryError", "RuntimeError", "Exception", "BaseException">>,
     <<"ExceptionGroup", "BaseExceptionGroup", "Exception", "BaseException">>,
     <<"BaseExceptionGroup", "BaseException">>,
     <<"SystemExit", "BaseException">>}

\* an exception object of class cls; status is 0 unless it is an
\* HTTPException
Exc(cls, status, text, arg) ==
    [type |-> cls[1], mro |-> cls, status |-> status, msg |-> Msg(text, arg)]

HTTPException(status, text, arg) == Exc(HTTPExceptionClass, status, text, arg)

\* str(e): an HTTPException prints as "<status_code>: <detail>"
StrOf(e) ==
    [code |-> IF e.type = "HTTPException" THEN {e.status} ELSE {}, msg |-> e.msg]

\* the except clause as it would be if it caught ValueError alone
CatchesValueErrorOnly(e) == e.type = "ValueError"

\* `except Exception as e`: isinstance(e, Exception), Exception being the
\* class of e or one of its bases
Catches(e) == \E i \in DOMAIN e.mro : e.mro[i] = "Exception"

(***************************************************************************)
(* State.                                                                  *)
(***************************************************************************)
VARIABLES
    environ,      \* os.environ: MODEL_TYPE and MODEL_PATH, unset or set
    cwd,          \* the working directory the two programs are started in
    MODEL_TYPE,   \* api.py's global MODEL_TYPE
    MODEL_PATH,   \* api.py's global MODEL_PATH
    dl,           \* the downloader process: its position in download_model
    fs,           \* the directories that exist
    model_cache,  \* api.py's global _model_cache: task -> model handle
    built,        \* per task, the number of models constructed so far
    outputs,      \* the files of OUTPUT_DIR: path -> the video written to it
    issued,       \* the number of uuid4 values handed out so far
    running,      \* the request whose coroutine holds the event loop, or 0
    pc,           \* per request slot, its position in generate_video
    req,          \* per request slot, the form fields of the request
    loc,          \* per request slot, the local variables of generate_video
    last,         \* the response produced by the latest step, if any
    dlok          \* the model types t for which download_model(t, MODEL_PATH)
                  \* has returned normally

vars == <<environ, cwd, MODEL_TYPE, MODEL_PATH, dl, fs, model_cache, built, outputs, issued, running,
          pc, req, loc, last, dlok>>

NoResponse == [op |-> "none"]

\* the downloader is not running
NoDownload == [pc |-> "idle", model_type |-> <<>>, output_dir |-> <<>>]

NoRequest ==
    [task |-> <<>>, size |-> <<>>, image |-> FALSE, frame_num |-> {},
     seed |-> PyInt(TRUE, <<1>>), sample_steps |-> {}, guide_scale |-> {}]

NoLocals ==
    [sample_steps |-> {}, guide_scale |-> {}, frame_num |-> {}, seed |-> {},
     img |-> FALSE, model |-> {}, constructed |-> FALSE, generated |-> {},
     video_id |-> {}, written |-> {}, exc |-> {}]

\* the requests of the service specification: every task and size, with and
\* without an image, the sampling parameters left to the defaults
ServiceRequests ==
    [task : AllTasks, size : {Size1280x704, UnknownSize}, image : BOOLEAN,
     frame_num : {{}}, seed : {PyInt(FALSE, <<7>>)}, sample_steps : {{}}, guide_scale : {{}}]

\* the requests of the parameter specification: valid requests with every
\* combination of supplied and omitted sampling parameters
ParamRequests ==
    [task : DOMAIN WAN_CONFIGS, size : {Size832x480}, image : BOOLEAN,
     frame_num : {{}, {0}, {17}},
     seed : {PyInt(TRUE, <<1>>), PyZero, PyInt(FALSE, <<4,2>>)},
     sample_steps : {{}, {0}, {20}}, guide_scale : {{}, {0}, {75}}]

\* the requests of the downloader specification: the tasks whose checkpoints
\* the downloader knows, with and without an image
DownloadRequests ==
    [task : DOMAIN MODELS, size : {Size1280x704}, image : BOOLEAN,
     frame_num : {{}}, seed : {PyInt(FALSE, <<7>>)}, sample_steps : {{}}, guide_scale : {{}}]

\* the scheduling as it would be for handlers that run on threads: every
\* step of a handler can be preempted
YieldsAnywhere(stage) == TRUE

\* the positions at which a coroutine gives up the event loop: suspended in
\* `await image.read()`, or returned
Yields(stage) == stage \in {"read", "idle"}

\* a step of request r that goes on to `stage` with locals l
Goto(r, stage, l) ==
    /\ pc' = [pc EXCEPT ![r] = stage]
    /\ loc' = [loc EXCEPT ![r] = l]
    /\ running' = IF Yields(stage) THEN 0 ELSE r
    /\ last' = NoResponse

\* a step of request r that raises e inside the try block
Raise(r, e) == Goto(r, "except", [loc[r] EXCEPT !.exc = {e}])

\* the step of request r that ends the handler with a response
Finish(r, response) ==
    /\ pc' = [pc EXCEPT ![r] = "idle"]
    /\ loc' = [loc EXCEPT ![r] = NoLocals]
    /\ req' = [req EXCEPT ![r] = NoRequest]
    /\ running' = IF Yields("idle") THEN 0 ELSE r
    /\ last' = response

\* request r may take a step: it holds the event loop, or the loop is free
CanRun(r) == running = r \/ running = 0

\* the requests between the start of the handler and its response
InFlight == {r \in Reqs : pc[r] # "idle"}

\* the default resolution as it would be with `x or cfg.x`: truthiness,
\* not None
OrDefaultFalsy(opt, default) ==
    IF opt = {} \/ opt = {0} THEN default ELSE CHOOSE v \in opt : TRUE

\* `if x is None: x = cfg.x`: the value of an Optional form field, or the
\* default
OrDefault(opt, default) == IF opt = {} THEN default ELSE CHOOSE v \in opt : TRUE

(***************************************************************************)
(* POST /generate: generate_video, step by step.                           *)
(***************************************************************************)
\* `if seed < 0: seed = random.randint(0, sys.maxsize)`: the integers seed
\* can be afterwards
ResolvedSeed(seed) ==
    IF IsNegative(seed) THEN random_randint(PyZero, SysMaxsize)
    ELSE IntRange(seed, seed)

\* The handler starts on a free event loop and runs the validation of task
\* and size, the defaults from the config and the seed.
Begin(r, requests) ==
    /\ pc[r] = "idle"
    /\ running = 0
    /\ \A s \in 1..(r - 1) : pc[s] # "idle"
    /\ issued + Cardinality(InFlight) < MaxDraws
    /\ \E q \in requests :
        /\ req' = [req EXCEPT ![r] = q]
        /\ IF q.task \notin DOMAIN WAN_CONFIGS
           THEN Raise(r, HTTPException(400, "Unsupported task: ", q.task))
           ELSE IF q.size \notin SIZE_CONFIGS
           THEN Raise(r, HTTPException(400, "Unsupported size: ", q.size))
           ELSE LET cfg == WAN_CONFIGS[q.task]
                IN  Goto(r, "image",
                         [NoLocals EXCEPT
                            !.sample_steps = {OrDefault(q.sample_steps, cfg.sample_steps)},
                            !.guide_scale = {OrDefault(q.guide_scale, cfg.sample_guide_scale)},
                            !.frame_num = {OrDefault(q.frame_num, cfg.frame_num)},
                            !.seed = {ResolvedSeed(q.seed)}])
    /\ UNCHANGED <<environ, cwd, MODEL_TYPE, MODEL_PATH, dl, fs, model_cache, built, outputs, issued, dlok>>

\* `if image is not None: image_data = await image.read()`: with an image
\* the coroutine is suspended and the event loop is free for other requests
ReadImage(r) ==
    /\ pc[r] = "image"
    /\ CanRun(r)
    /\ IF req[r].image
       THEN Goto(r, "read", loc[r])
       ELSE Goto(r, "get_model", loc[r])
    /\ UNCHANGED <<environ, cwd, MODEL_TYPE, MODEL_PATH, dl, fs, model_cache, built, outputs, issued, req, dlok>>

\* what the resumed coroutine can raise before get_model: the cancellation
\* of its task at the await, or an exception of the decoding
DecodeRaises ==
    {CancelledErrorClass, UnidentifiedImageErrorClass, DecompressionBombErrorClass}

\* The event loop resumes the coroutine after the read;
\* Image.open(...).convert("RGB") decodes the upload or raises.
DecodeImage(r) ==
    /\ pc[r] = "read"
    /\ running = 0
    /\ \/ Goto(r, "get_model", [loc[r] EXCEPT !.img = TRUE])
       \/ \E cls \in DecodeRaises :
            Raise(r, Exc(cls, 0, "cannot read image", <<>>))
    /\ UNCHANGED <<environ, cwd, MODEL_TYPE, MODEL_PATH, dl, fs, model_cache, built, outputs, issued, req, dlok>>

\* get_model: `if task not in _model_cache:`, else `return _model_cache[task]`
GetModelTest(r) ==
    /\ pc[r] = "get_model"
    /\ CanRun(r)
    /\ IF CacheMiss(model_cache, req[r].task)
       THEN Goto(r, "gm_init", loc[r])
       ELSE Goto(r, "generate",
                 [loc[r] EXCEPT !.model = {model_cache[req[r].task]}])
    /\ UNCHANGED <<environ, cwd, MODEL_TYPE, MODEL_PATH, dl, fs, model_cache, built, outputs, issued, req, dlok>>

\* get_model: the checks on the task and on the checkpoint directory
GetModelCheck(r) ==
    /\ pc[r] = "gm_init"
    /\ CanRun(r)
    /\ LET task == req[r].task
           checkpoint_dir == CheckpointDir(MODEL_PATH, task)
       IN  IF task \notin DOMAIN WAN_CONFIGS
           THEN Raise(r, Exc(ValueErrorClass, 0, "Unsupported task: ", task))
           ELSE IF ~ Exists(fs, cwd, checkpoint_dir)
           THEN Raise(r, Exc(FileNotFoundErrorClass, 0,
                             "Model checkpoint not found at ", checkpoint_dir))
           ELSE Goto(r, "gm_construct", loc[r])
    /\ UNCHANGED <<environ, cwd, MODEL_TYPE, MODEL_PATH, dl, fs, model_cache, built, outputs, issued, req, dlok>>

\* get_model: the constructor of the task's model class, the store into
\* _model_cache and `return _model_cache[task]`
GetModelConstruct(r) ==
    /\ pc[r] = "gm_construct"
    /\ CanRun(r)
    /\ LET task == req[r].task
           handle == [class |-> TaskKind(task), task |-> task,
                      serial |-> built[task] + 1]
       IN  IF TaskKind(task) = "other"
           THEN /\ Raise(r, Exc(ValueErrorClass, 0, "Unsupported task type: ", task))
                /\ UNCHANGED <<model_cache, built>>
           ELSE \/ /\ built[task] < MaxBuild
                   /\ built' = [built EXCEPT ![task] = @ + 1]
                   /\ model_cache' =
                        [t \in DOMAIN model_cache \cup {task} |->
                           IF t = task THEN handle ELSE model_cache[t]]
                   /\ Goto(r, "generate",
                           [loc[r] EXCEPT !.model = {handle},
                                          !.constructed = TRUE])
                \/ \E cls \in LibraryRaises :
                     /\ Raise(r, Exc(cls, 0, "cannot load model", <<>>))
                     /\ UNCHANGED <<model_cache, built>>
    /\ UNCHANGED <<environ, cwd, MODEL_TYPE, MODEL_PATH, dl, fs, outputs, issued, req, dlok>>

\* the arguments generate_video hands to model.generate
GenerateArgs(r) ==
    [model |-> loc[r].model,
     img |-> TaskKind(req[r].task) \in {"ti2v", "i2v"} /\ loc[r].img,
     size |-> req[r].size,
     frame_num |-> loc[r].frame_num,
     sampling_steps |-> loc[r].sample_steps,
     guide_scale |-> loc[r].guide_scale,
     seed |-> loc[r].seed]

\* the if/elif chain around model.generate
Generate(r) ==
    /\ pc[r] = "generate"
    /\ CanRun(r)
    /\ LET kind == TaskKind(req[r].task)
       IN  IF kind = "i2v" /\ ~ loc[r].img
           THEN Raise(r, HTTPException(400, "Image is required for i2v task", <<>>))
           ELSE IF kind = "other"
           THEN Raise(r, HTTPException(400, "Unsupported task type: ", req[r].task))
           ELSE \/ Goto(r, "save", [loc[r] EXCEPT !.generated = {GenerateArgs(r)}])
                \/ \E cls \in LibraryRaises :
                     Raise(r, Exc(cls, 0, "generation failed", <<>>))
    /\ UNCHANGED <<environ, cwd, MODEL_TYPE, MODEL_PATH, dl, fs, model_cache, built, outputs, issued, req, dlok>>

\* output_path = OUTPUT_DIR / f"{video_id}.mp4"
OutputPath(video_id) == [dir |-> "OUTPUT_DIR", name |-> video_id, ext |-> ".mp4"]

\* the file system after a write of `content` to `path`
Written(files, path, content) ==
    [p \in DOMAIN files \cup {path} |-> IF p = path THEN content ELSE files[p]]

\* save_video as it would be if it could return without the file
save_video_outcomes_unwritten ==
    {[returns |-> TRUE, wrote |-> "all"],
     [returns |-> TRUE, wrote |-> "nothing"],
     [returns |-> FALSE, wrote |-> "nothing"],
     [returns |-> FALSE, wrote |-> "part"]}

\* wan.utils.utils.save_video: it writes the whole file and returns, or it
\* raises, having written nothing or a part of the file
save_video_outcomes ==
    {[returns |-> TRUE, wrote |-> "all"],
     [returns |-> FALSE, wrote |-> "nothing"],
     [returns |-> FALSE, wrote |-> "part"]}

\* video_id = str(uuid.uuid4()), output_path = OUTPUT_DIR / f"{video_id}.mp4"
\* and save_video(..., save_file=str(output_path), ...).  A file holds the
\* number of the save_video call that wrote it.
SaveVideo(r) ==
    /\ pc[r] = "save"
    /\ CanRun(r)
    /\ issued' = issued + 1
    /\ \E video_id \in uuid_uuid4, outcome \in save_video_outcomes :
        LET bound == [loc[r] EXCEPT !.video_id = {video_id}]
        IN  /\ outputs' =
                 IF outcome.wrote = "nothing" THEN outputs
                 ELSE Written(outputs, OutputPath(video_id),
                              [call |-> issued', complete |-> outcome.wrote = "all"])
            /\ IF outcome.returns
               THEN Goto(r, "respond", [bound EXCEPT !.written = {issued'}])
               ELSE \E cls \in LibraryRaises :
                      Goto(r, "except",
                           [bound EXCEPT
                              !.exc = {Exc(cls, 0, "cannot write video", <<>>)}])
    /\ UNCHANGED <<environ, cwd, MODEL_TYPE, MODEL_PATH, dl, fs, model_cache, built, req, dlok>>

\* what a response of POST /generate shows of its request: the fields the
\* validation reads, what the handler raised and what it did before answering
GenerateResponse(r, status, path, detail) ==
    [op |-> "generate", status |-> status, path |-> path, detail |-> detail,
     task |-> req[r].task, size |-> req[r].size, image |-> req[r].image,
     exc |-> loc[r].exc, constructed |-> loc[r].constructed,
     generated |-> loc[r].generated # {}, video_id |-> loc[r].video_id,
     written |-> loc[r].written]

\* `del video`, torch.cuda.empty_cache() and return FileResponse(path=
\* output_path, ...): the library call returns, or it raises inside the try
\* block with the video already written
Respond(r) ==
    /\ pc[r] = "respond"
    /\ CanRun(r)
    /\ \/ /\ Finish(r, GenerateResponse(r, 200,
                    {OutputPath(CHOOSE u \in loc[r].video_id : TRUE)}, {}))
          /\ UNCHANGED <<environ, cwd, MODEL_TYPE, MODEL_PATH, dl, fs, model_cache, built, outputs, issued, dlok>>
       \/ /\ \E cls \in LibraryRaises :
                Raise(r, Exc(cls, 0, "cannot empty cache", <<>>))
          /\ UNCHANGED <<environ, cwd, MODEL_TYPE, MODEL_PATH, dl, fs, model_cache, built, outputs, issued, req, dlok>>

\* `except Exception as e: raise HTTPException(status_code=500, ...)`; an
\* exception the clause does not catch leaves the handler (status 0)
Except(r) ==
    /\ pc[r] = "except"
    /\ CanRun(r)
    /\ LET e == CHOOSE x \in loc[r].exc : TRUE
       IN  IF Catches(e)
           THEN Finish(r, GenerateResponse(r, 500, {},
                           {[prefix |-> "Video generation failed: ",
                             str |-> StrOf(e)]}))
           ELSE Finish(r, GenerateResponse(r, 0, {}, {}))
    /\ UNCHANGED <<environ, cwd, MODEL_TYPE, MODEL_PATH, dl, fs, model_cache, built, outputs, issued, dlok>>

(***************************************************************************)
(* The health and metadata endpoints.  A handler without an await runs     *)
(* from start to end in one turn of the event loop.                        *)
(***************************************************************************)
\* the body of GET /
RootBody ==
    [status |-> "healthy", message |-> "Wan 2.2 Video Generation API",
     model_type |-> MODEL_TYPE, available_tasks |-> DOMAIN WAN_CONFIGS]

\* the body of GET /health
HealthBody == [status |-> "healthy"]

\* the body of GET /tasks
TasksBody == [available_tasks |-> DOMAIN WAN_CONFIGS, current_task |-> MODEL_TYPE]

\* list_sizes as it would be inside generate_video's try block: an unknown
\* task answered with 500
SizesResponseCaught(task) ==
    IF task \notin DOMAIN SUPPORTED_SIZES
    THEN [op |-> "sizes", task |-> task, status |-> 500,
          detail |-> {Msg("Unknown task: ", task)}, body |-> {}]
    ELSE [op |-> "sizes", task |-> task, status |-> 200, detail |-> {},
          body |-> {[task |-> task, supported_sizes |-> SUPPORTED_SIZES[task]]}]

\* the response of GET /sizes/{task}
SizesResponse(task) ==
    IF task \notin DOMAIN SUPPORTED_SIZES
    THEN [op |-> "sizes", task |-> task, status |-> 400,
          detail |-> {Msg("Unknown task: ", task)}, body |-> {}]
    ELSE [op |-> "sizes", task |-> task, status |-> 200, detail |-> {},
          body |-> {[task |-> task, supported_sizes |-> SUPPORTED_SIZES[task]]}]

\* a metadata handler: it answers and touches nothing else
Answer(response) ==
    /\ running = 0
    /\ last' = response
    /\ UNCHANGED <<environ, cwd, MODEL_TYPE, MODEL_PATH, dl, fs, model_cache, built, outputs, issued,
                   running, pc, req, loc, dlok>>

root == Answer([op |-> "root", status |-> 200, body |-> RootBody])

health_check == Answer([op |-> "health", status |-> 200, body |-> HealthBody])

list_tasks == Answer([op |-> "tasks", status |-> 200, body |-> TasksBody])

list_sizes == \E task \in AllTasks : Answer(SizesResponse(task))

(***************************************************************************)
(* download_models.py                                                      *)
(***************************************************************************)
\* a step of the downloader that leaves the server alone
DownloaderStep ==
    UNCHANGED <<environ, cwd, MODEL_TYPE, MODEL_PATH, model_cache, built, outputs,
                issued, running, pc, req, loc>>

\* what a call of download_model shows when it ends; "exit1" is sys.exit(1)
DownloadResult(model_type, output_dir, result) ==
    [op |-> "download", model_type |-> model_type, output_dir |-> output_dir,
     result |-> result]

\* the normal returns of download_model(t, MODEL_PATH) so far, with one
\* more return of download_model(model_type, output_dir)
Returned(model_type, output_dir) ==
    IF output_dir = MODEL_PATH THEN dlok \cup {model_type} ELSE dlok

\* download_model(model_type, output_dir), run as a process of its own, up
\* to its return or to the call of snapshot_download
download_model(model_type, output_dir) ==
    /\ dl.pc = "idle"
    /\ DownloaderStep
    /\ fs' = fs
    /\ IF model_type \notin DOMAIN MODELS
       THEN /\ last' = DownloadResult(model_type, output_dir, "exit1")
            /\ UNCHANGED <<dl, dlok>>
       ELSE IF Exists(fs, cwd, PathJoin(output_dir, MODELS[model_type]))
       THEN /\ last' = DownloadResult(model_type, output_dir, "exists")
            /\ dlok' = Returned(model_type, output_dir)
            /\ dl' = dl
       ELSE /\ last' = NoResponse
            /\ dl' = [pc |-> "downloading", model_type |-> model_type,
                      output_dir |-> output_dir]
            /\ dlok' = dlok

\* snapshot_download(local_dir=str(model_path)) at work: the directory
\* appears, with the directories above it, while the download is going on
snapshot_download_writes ==
    /\ dl.pc = "downloading"
    /\ DownloaderStep
    /\ LET model_path == PathJoin(dl.output_dir, MODELS[dl.model_type])
       IN  /\ ~ Exists(fs, cwd, model_path)
           /\ fs' = MakeDirs(fs, cwd, model_path)
    /\ last' = NoResponse
    /\ UNCHANGED <<dl, dlok>>

\* snapshot_download returns, whatever it left on the disk, and
\* download_model prints its success and returns
download_model_returns ==
    /\ dl.pc = "downloading"
    /\ DownloaderStep
    /\ fs' = fs
    /\ last' = DownloadResult(dl.model_type, dl.output_dir, "downloaded")
    /\ dlok' = Returned(dl.model_type, dl.output_dir)
    /\ dl' = NoDownload

\* snapshot_download raises, before or after it created the directory:
\* `except Exception as e: ... sys.exit(1)`
download_model_exits ==
    /\ dl.pc = "downloading"
    /\ DownloaderStep
    /\ fs' = fs
    /\ last' = DownloadResult(dl.model_type, dl.output_dir, "exit1")
    /\ dlok' = dlok
    /\ dl' = NoDownload

\* the script: model_type = os.getenv("MODEL_TYPE", "ti2v-5B"),
\* output_dir = os.getenv("MODEL_PATH", "/app/models")
download_main ==
    download_model(os_getenv(environ.MODEL_TYPE, DefaultModelType),
                   os_getenv(environ.MODEL_PATH, DownloadModelPath))

(***************************************************************************)
(* Specifications.                                                         *)
(***************************************************************************)
\* the directories that exist before either program has run
BaseDirs == {RootDir, AppDir}

\* the directories after each path of a set was made
RECURSIVE MakeAll(_, _, _)
MakeAll(files, wd, paths) ==
    IF paths = {} THEN files
    ELSE LET p == CHOOSE x \in paths : TRUE
         IN  MakeAll(MakeDirs(files, wd, p), wd, paths \ {p})

\* the checkpoint directories get_model looks for under a model path
CheckpointFiles(model_path) ==
    {CheckpointDir(model_path, t) : t \in DOMAIN WAN_CONFIGS}

\* the globals api.py reads from the environment when it is imported
Startup ==
    /\ MODEL_TYPE = os_getenv(environ.MODEL_TYPE, DefaultModelType)
    /\ MODEL_PATH = os_getenv(environ.MODEL_PATH, DefaultModelPath)

\* an environment that sets neither variable
NoEnviron == [MODEL_TYPE |-> {}, MODEL_PATH |-> {}]

InitCommon ==
    /\ dl = NoDownload
    /\ model_cache = <<>>
    /\ built = [t \in DOMAIN WAN_CONFIGS |-> 0]
    /\ outputs = <<>>
    /\ issued = 0
    /\ running = 0
    /\ pc = [r \in Reqs |-> "idle"]
    /\ req = [r \in Reqs |-> NoRequest]
    /\ loc = [r \in Reqs |-> NoLocals]
    /\ last = NoResponse
    /\ dlok = {}

Handler(r) ==
    \/ ReadImage(r)
    \/ DecodeImage(r)
    \/ GetModelTest(r)
    \/ GetModelCheck(r)
    \/ GetModelConstruct(r)
    \/ Generate(r)
    \/ SaveVideo(r)
    \/ Respond(r)
    \/ Except(r)

Metadata == root \/ health_check \/ list_tasks \/ list_sizes

\* the checkpoints installed before the server starts: none, all of them, or
\* all but that of t2v-A14B
InstalledCheckpoints ==
    {MakeAll(BaseDirs, AppDir, S) :
        S \in {T \in SUBSET CheckpointFiles(DefaultModelPath) :
                 CheckpointFiles(DefaultModelPath) \ T \in
                    {{}, {CheckpointDir(DefaultModelPath, T2V_A14B)},
                     CheckpointFiles(DefaultModelPath)}}}

\* The service: concurrent requests on one event loop, the checkpoints that
\* were installed before the server started.
Init ==
    /\ environ = NoEnviron
    /\ cwd = AppDir
    /\ Startup
    /\ fs \in InstalledCheckpoints
    /\ InitCommon

Next ==
    \/ \E r \in Reqs : Begin(r, ServiceRequests)
    \/ \E r \in Reqs : Handler(r)
    \/ Metadata

Spec == Init /\ [][Next]_vars

\* Default-parameter resolution: every combination of supplied and omitted
\* parameters, on a server that was started again: its cache is empty and
\* its output directory holds the videos of the earlier run, with room for
\* one more.
InitParams ==
    /\ environ = NoEnviron
    /\ cwd = AppDir
    /\ Startup
    /\ fs = MakeAll(BaseDirs, AppDir, CheckpointFiles(DefaultModelPath))
    /\ dl = NoDownload
    /\ model_cache = <<>>
    /\ built = [t \in DOMAIN WAN_CONFIGS |-> 0]
    /\ issued = MaxDraws - 1
    /\ outputs = [p \in {OutputPath(MaxUuid)} |->
                    [call |-> issued, complete |-> TRUE]]
    /\ running = 0
    /\ pc = [r \in Reqs |-> "idle"]
    /\ req = [r \in Reqs |-> NoRequest]
    /\ loc = [r \in Reqs |-> NoLocals]
    /\ last = NoResponse
    /\ dlok = {}

NextParams ==
    \/ Begin(1, ParamRequests)
    \/ Handler(1)

SpecParams == InitParams /\ [][NextParams]_vars

\* The downloader beside the server, both started in the same environment,
\* which sets MODEL_TYPE and MODEL_PATH or leaves them unset; nothing is
\* downloaded yet.
InitDownload ==
    /\ environ \in [MODEL_TYPE : {{}} \cup {{t} : t \in DOMAIN MODELS \cup {UnknownTask}},
                    MODEL_PATH : {{}} \cup {{d} : d \in Dirs}]
    /\ cwd \in {RootDir, AppDir}
    /\ Startup
    /\ fs = BaseDirs
    /\ InitCommon

NextDownload ==
    \/ download_main
    \/ snapshot_download_writes
    \/ download_model_returns
    \/ download_model_exits
    \/ Begin(1, DownloadRequests)
    \/ Handler(1)

SpecDownload == InitDownload /\ [][NextDownload]_vars

(***************************************************************************)
(* Properties.                                                             *)
(***************************************************************************)
\* a response of POST /generate to a request that fails the validation:
\* unknown task, unknown size, or an i2v task without an image
ValidationFailure(resp) ==
    /\ resp.op = "generate"
    /\ \/ resp.task \notin DOMAIN WAN_CONFIGS
       \/ resp.size \notin SIZE_CONFIGS
       \/ TaskKind(resp.task) = "i2v" /\ ~ resp.image

\* C1: POST /generate answers every validation failure (unknown task,
\* unknown size, i2v task without an image) with status 400.
C1_ValidationFailureIs400 ==
    ValidationFailure(last) => last.status = 400

\* the exception derives from Exception
DerivesFromException(e) == \E i \in 1..Len(e.mro) : e.mro[i] = "Exception"

\* C2 as amended: every exception that derives from Exception and is raised
\* by get_model, by the image decoding, by model.generate or by save_video
\* is answered with status 500 and the detail "Video generation failed: "
\* followed by the exception's message; an exception leaves the handler
\* uncaught exactly when it does not derive from Exception.
C2_ExceptionIs500 ==
    last.op = "generate" =>
        /\ last.status \in {0, 200, 500}
        /\ last.status = 0 <=>
              \E e \in last.exc : ~ DerivesFromException(e)
        /\ \A e \in last.exc :
             (e.type # "HTTPException" /\ DerivesFromException(e)) =>
                /\ last.status = 500
                /\ last.detail = {[prefix |-> "Video generation failed: ",
                                   str |-> [code |-> {}, msg |-> e.msg]]}

\* C2 happens: save_video raised an exception of a library's own class that
\* derives from Exception through RuntimeError, and the request was answered
C2_Witness ==
    /\ last.op = "generate"
    /\ last.video_id # {}
    /\ \E e \in last.exc : e.type = "OutOfMemoryError"

\* C2 as stated: every exception raised by get_model, by the image decoding,
\* by model.generate or by save_video is answered with status 500 and the
\* detail "Video generation failed: " followed by the exception's message,
\* and no request ends with an exception that the handler did not catch.
C2_FailureIs500 ==
    last.op = "generate" =>
        /\ last.status \in {200, 500}
        /\ \A e \in last.exc :
             e.type # "HTTPException" =>
                /\ last.status = 500
                /\ last.detail = {[prefix |-> "Video generation failed: ",
                                   str |-> [code |-> {}, msg |-> e.msg]]}

\* the part of get_model that initialises a model
InitSection == {"gm_init", "gm_construct"}

\* the cache holds exactly the tasks whose model was constructed, each
\* constructed once, and a request that leaves get_model holds the cached
\* handle of its task
CacheState ==
    /\ DOMAIN model_cache \subseteq DOMAIN WAN_CONFIGS
    /\ \A t \in DOMAIN WAN_CONFIGS :
         /\ t \in DOMAIN model_cache <=> built[t] >= 1
         /\ built[t] <= 1
    /\ \A r \in Reqs :
         pc[r] = "generate" =>
            /\ req[r].task \in DOMAIN model_cache
            /\ loc[r].model = {model_cache[req[r].task]}

\* C3: the cache contains a task exactly when a model of it was constructed;
\* a get_model call that raises leaves the cache unchanged; a cached handle
\* is never replaced or removed and is what every later get_model returns;
\* a task's model is constructed at most once.
C3_CacheLazyAndStable ==
    [][ /\ CacheState'
        /\ \A t \in DOMAIN model_cache :
             t \in DOMAIN model_cache' /\ model_cache'[t] = model_cache[t]
        /\ \A r \in Reqs :
             (pc[r] \in {"get_model"} \cup InitSection /\ pc'[r] = "except")
                => model_cache' = model_cache
      ]_vars

\* C3 happens: a request got the handle that an earlier request constructed
C3_Witness ==
    \E r \in Reqs :
        /\ pc[r] = "generate"
        /\ ~ loc[r].constructed
        /\ loc[r].model # {}
        /\ built[req[r].task] = 1

\* from the call of get_model to the end of save_video
GenerationSection == {"get_model", "generate", "save"} \cup InitSection

\* C4: at most one request at a time is between its call of get_model and
\* the end of its save_video call.
C4_GenerationSequential ==
    Cardinality({r \in Reqs : pc[r] \in GenerationSection}) <= 1

\* C4 happens: one request is in model.generate while another is in flight
C4_Witness ==
    \E a, b \in Reqs :
        a # b /\ pc[a] = "generate" /\ pc[b] = "read"

\* request b waits to enter get_model for a task that is not cached while
\* request a, whose task is not cached either, is initialising a model
RaceCase(a, b) ==
    /\ a # b
    /\ pc[a] \in InitSection
    /\ pc[b] = "read"
    /\ CacheMiss(model_cache, req[a].task)
    /\ CacheMiss(model_cache, req[b].task)

\* C5 as amended: no two requests are inside the initialisation section of
\* get_model at the same time.
C5_NoRaceOnCachePopulation ==
    \A a, b \in Reqs :
        (pc[a] \in InitSection /\ pc[b] \in InitSection) => a = b

\* C5 happens: two requests for uncached tasks are in flight, one of them
\* inside the initialisation section
C5_Witness == \E a, b \in Reqs : RaceCase(a, b)

\* C5 as stated: the initialisation section is open to a second request;
\* while one request is inside it, another request in flight can go on
\* towards its own cache test.
C5_RaceOnCachePopulation ==
    \A a, b \in Reqs : RaceCase(a, b) => ENABLED DecodeImage(b)

\* C6 as amended: a 200 response names the file OUTPUT_DIR/<uuid4>.mp4 that
\* its own request wrote with save_video and that exists; no file is ever
\* removed; a file appears or changes only in a save_video call, under the
\* name OUTPUT_DIR/<uuid4>.mp4 of the calling request's uuid4 value, so that
\* a file written earlier is overwritten only when uuid4 returns the value
\* it is named after once more.
C6_OutputsGrowByUuid ==
    [][ /\ (last'.op = "generate" /\ last'.status = 200) =>
              \E u \in last'.video_id, c \in last'.written :
                 /\ last'.path = {[dir |-> "OUTPUT_DIR", name |-> u, ext |-> ".mp4"]}
                 /\ \A p \in last'.path :
                      /\ p \in DOMAIN outputs'
                      /\ outputs'[p] = [call |-> c, complete |-> TRUE]
        /\ DOMAIN outputs \subseteq DOMAIN outputs'
        /\ \A p \in DOMAIN outputs' :
             (p \notin DOMAIN outputs \/ outputs'[p] # outputs[p]) =>
                \E r \in Reqs :
                   /\ pc[r] = "save"
                   /\ \E u \in loc'[r].video_id :
                        /\ loc'[r].video_id = {u}
                        /\ p = [dir |-> "OUTPUT_DIR", name |-> u, ext |-> ".mp4"]
      ]_vars

\* C6 happens: a second generation was answered with its file while the
\* file of the first is still there
C6_Witness ==
    /\ last.op = "generate"
    /\ last.status = 200
    /\ Cardinality({p \in DOMAIN outputs : outputs[p].complete}) >= 2

\* C6 as stated: a 200 response names the file OUTPUT_DIR/<uuid4>.mp4 that
\* its own request wrote and that exists; only save_video writes to the
\* output directory; no file is ever removed or overwritten.
C6_OutputsOnlyGrow ==
    [][ /\ (last'.op = "generate" /\ last'.status = 200) =>
              \E u \in last'.video_id :
                 /\ last'.path = {[dir |-> "OUTPUT_DIR", name |-> u, ext |-> ".mp4"]}
                 /\ \A p \in last'.path :
                      /\ p \in DOMAIN outputs'
                      /\ outputs'[p].complete
        /\ outputs' # outputs => \E r \in Reqs : pc[r] = "save"
        /\ \A p \in DOMAIN outputs :
             p \in DOMAIN outputs' /\ outputs'[p] = outputs[p]
      ]_vars

\* C7: GET /, /health and /tasks answer 200 with their fixed body,
\* GET /sizes/{task} answers 200 with the supported sizes for a known task
\* and 400 otherwise, and none of them changes the cache, the checkpoint
\* directories or the output directory.
C7_MetadataReadOnly ==
    [][ last'.op \in {"root", "health", "tasks", "sizes"} =>
          /\ last'.op = "root" =>
                last'.status = 200 /\ last'.body = RootBody
          /\ last'.op = "health" =>
                last'.status = 200 /\ last'.body = HealthBody
          /\ last'.op = "tasks" =>
                last'.status = 200 /\ last'.body = TasksBody
          /\ last'.op = "sizes" =>
                IF last'.task \in DOMAIN SUPPORTED_SIZES
                THEN /\ last'.status = 200
                     /\ last'.body = {[task |-> last'.task,
                                       supported_sizes |-> SUPPORTED_SIZES[last'.task]]}
                ELSE last'.status = 400
          /\ model_cache' = model_cache
          /\ outputs' = outputs
          /\ fs' = fs
      ]_vars

\* C7 happens: GET /sizes of an unknown task is answered while a model is
\* cached, a video is stored and a request is in flight
C7_Witness ==
    /\ last.op = "sizes"
    /\ last.task = UnknownTask
    /\ model_cache # <<>>
    /\ outputs # <<>>
    /\ \E r \in Reqs : pc[r] = "read"

\* C8: model.generate receives the request's sample_steps, guide_scale and
\* frame_num where the request supplied them (0 included) and the task
\* configuration's otherwise; the seed it receives is the request's seed
\* when that is >= 0 and otherwise any integer of [0, sys.maxsize] and no
\* other.
C8_DefaultResolution ==
    \A r \in Reqs :
        pc[r] = "save" =>
            \E g \in loc[r].generated :
                LET q == req[r]
                    cfg == WAN_CONFIGS[q.task]
                IN  /\ g.sampling_steps =
                         (IF q.sample_steps = {} THEN {cfg.sample_steps} ELSE q.sample_steps)
                    /\ g.guide_scale =
                         (IF q.guide_scale = {} THEN {cfg.sample_guide_scale} ELSE q.guide_scale)
                    /\ g.frame_num =
                         (IF q.frame_num = {} THEN {cfg.frame_num} ELSE q.frame_num)
                    /\ \E v \in g.seed :
                         /\ g.seed = {v}
                         /\ \A x \in SeedProbes :
                              InRange(x, v) <=>
                                 IF q.seed.neg
                                 THEN /\ ~ x.neg
                                      /\ LeqDigits(x.digits,
                                           <<9,2,2,3,3,7,2,0,3,6,8,5,4,7,7,5,8,0,7>>)
                                 ELSE x = q.seed

\* C8 happens: model.generate ran for a request that supplied 0 steps and
\* a guidance scale of 0, left frame_num to the config and sent no seed, and
\* 1164115433906158532 is a seed it can have received
C8_Witness ==
    \E r \in Reqs :
        /\ pc[r] = "save"
        /\ req[r].sample_steps = {0}
        /\ req[r].guide_scale = {0}
        /\ req[r].frame_num = {}
        /\ req[r].seed.neg
        /\ \E g \in loc[r].generated : \E v \in g.seed :
              InRange(PyInt(FALSE, <<1,1,6,4,1,1,5,4,3,3,9,0,6,1,5,8,5,3,2>>), v)

\* C9: a request rejected for a validation reason never constructed a
\* model, never called model.generate and wrote no output file.
C9_RejectedBeforeModelLoad ==
    ValidationFailure(last) =>
        /\ ~ last.constructed
        /\ ~ last.generated
        /\ last.video_id = {}

\* C10: for every model type and directory the path download_model checks
\* and downloads into names the directory get_model requires; once
\* download_model(t, MODEL_PATH) has returned normally that directory
\* exists, get_model(t) does not raise FileNotFoundError, and a further
\* download_model(t, MODEL_PATH) finds the directory and downloads nothing.
C10_DownloaderAgreesWithServer ==
    [][ /\ \A d \in Dirs, t \in DOMAIN MODELS :
             Resolve(fs', cwd', PathJoin(d, MODELS[t]))
                = Resolve(fs', cwd', CheckpointDir(d, t))
        /\ \A t \in dlok' : Exists(fs', cwd', CheckpointDir(MODEL_PATH', t))
        /\ \A r \in Reqs :
             (pc[r] = "gm_init" /\ req[r].task \in dlok /\ pc'[r] = "except")
                => \A e \in loc'[r].exc : e.type # "FileNotFoundError"
        /\ (last'.op = "download" /\ last'.output_dir = MODEL_PATH
              /\ last'.model_type \in dlok)
                => last'.result = "exists" /\ fs' = fs
      ]_vars

=============================================================================
